---------------------------- MODULE Spec2Model ----------------------------
(***************************************************************************)
(* A model of argh/assembling.py: the signature inferencer                 *)
(* (_get_args_from_signature) and the command tree assembler               *)
(* (set_default_command, add_commands).                                    *)
(*                                                                         *)
(* Conventions.                                                            *)
(*  - Identifiers (function names, parameter names, option strings) are    *)
(*    sequences of one-character strings, so that name[0], str.format,     *)
(*    str.startswith and str.replace are computed character by character.  *)
(*  - An optional value (an attribute that may be absent, a key that may   *)
(*    be missing from a dict, an object that may be None) is a sequence of *)
(*    length 0 or 1.                                                       *)
(*  - A text that is None or empty in Python is "": the code only tests    *)
(*    the truthiness of such texts.                                        *)
(*  - Command aliases and annotation help texts are carried through by the *)
(*    code unchanged and decide nothing; they are left out.                *)
(***************************************************************************)
EXTENDS Naturals, Sequences, FiniteSets

VARIABLES
    parser,     \* the argparse.ArgumentParser the assembler is called on
    call,       \* <<>>, or <<the assembler call being made, with its arguments>>
    last,       \* the assembler call that returned last, and how it ended
    function,   \* the function given to the signature inferencer
    inferred    \* <<>> before _get_args_from_signature ran, <<its list>> after

vars == <<parser, call, last, function, inferred>>

(***************************************************************************)
(* Bounds of the model.                                                    *)
(***************************************************************************)
\* the longest parameter list of a function given to the inferencer
MaxParams == 3
\* the most subparsers (commands and namespaces) in a parser tree
MaxNodes == 2
\* the most arguments registered on the root parser
MaxArgs == 2

(***************************************************************************)
(* Sequences and strings.                                                  *)
(***************************************************************************)
Range(s) == {s[i] : i \in 1..Len(s)}

Min(a, b) == IF a < b THEN a ELSE b

\* reversed(x)
Reversed(s) == [i \in 1..Len(s) |-> s[Len(s) + 1 - i]]

\* list.count(x)
Count(s, x) == Cardinality({i \in 1..Len(s) : s[i] = x})

\* str.startswith(prefix)
StartsWith(s, prefix) ==
    /\ Len(prefix) <= Len(s)
    /\ \A i \in 1..Len(prefix) : s[i] = prefix[i]

\* str.replace(old, new, 1): only the first occurrence
ReplaceFirst(s, old, new) ==
    IF \E i \in 1..Len(s) : s[i] = old
    THEN LET first == CHOOSE i \in 1..Len(s) :
                          s[i] = old /\ \A k \in 1..(i - 1) : s[k] # old
         IN  [s EXCEPT ![first] = new]
    ELSE s

\* str.replace(old, new) for one-character old and new
RECURSIVE Replace(_, _, _)
Replace(s, old, new) ==
    IF s = <<>> THEN <<>>
    ELSE <<IF Head(s) = old THEN new ELSE Head(s)>> \o Replace(Tail(s), old, new)

\* the sequences over S of length at most n
SeqsUpTo(S, n) == UNION {[1..k -> S] : k \in 0..n}

\* the sequences over S of length at most n in which no element repeats
RECURSIVE DistinctSeqs(_, _)
DistinctSeqs(S, n) ==
    IF n = 0 THEN {<<>>}
    ELSE LET shorter == DistinctSeqs(S, n - 1)
         IN  shorter \cup UNION {{Append(s, x) : x \in S \ Range(s)} : s \in shorter}

(***************************************************************************)
(* Functions as the assembler sees them: the attributes the decorators set *)
(* and what inspect.getargspec reports.                                    *)
(*   name       function.__name__                                          *)
(*   argh_name  ATTR_NAME, the explicit command name (optional)            *)
(*   argh_args  ATTR_ARGS, the declared argument specs (a list)            *)
(*   infer      ATTR_INFER_ARGS_FROM_SIGNATURE                             *)
(*   args       spec.args, the parameter names in order                    *)
(*   defaults   spec.defaults, the default values of the LAST parameters   *)
(*   doc        function.__doc__                                           *)
(* An argument spec is what add_argument receives: oargs, the positional   *)
(* name or the option strings, and the "default" entry of okwargs.         *)
(***************************************************************************)
ParamNames ==
    {<<"a">>, <<"b">>, <<"a", "b">>, <<"b", "a">>, <<"b", "b">>}

DefaultValues == {"False", "None"}

\* every signature Python accepts within the bound: distinct parameter names,
\* defaults for a suffix of the parameters
Signatures ==
    {[name |-> <<"f">>, argh_name |-> <<>>, argh_args |-> <<>>, infer |-> i,
      args |-> ad[1], defaults |-> ad[2], doc |-> ""] :
        i \in BOOLEAN,
        ad \in {x \in DistinctSeqs(ParamNames, MaxParams)
                          \X SeqsUpTo(DefaultValues, MaxParams) :
                    Len(x[2]) <= Len(x[1])}}

(***************************************************************************)
(* _get_args_from_signature                                                *)
(***************************************************************************)
\* kwargs = dict(zip(*[reversed(x) for x in (spec.args, spec.defaults or [])])):
\* the keys of the dict
kwargs_keys(f) ==
    {Reversed(f.args)[i] : i \in 1..Min(Len(f.args), Len(f.defaults))}

\* kwargs.get(name), for a key of the dict
kwargs_get(f, name) ==
    LET i == CHOOSE k \in 1..Min(Len(f.args), Len(f.defaults)) :
                 Reversed(f.args)[k] = name
    IN  Reversed(f.defaults)[i]

\* chars = [a[0] for a in spec.args]
chars(f) == [i \in 1..Len(f.args) |-> f.args[i][1]]

\* char_counts[char]
char_counts(f, char) == Count(chars(f), char)

\* the threshold off by one: 2 < char_counts[char]
conflicting_opts_above_two(f) ==
    {char \in Range(chars(f)) : 2 < char_counts(f, char)}

\* conflicting_opts = tuple(char for char in char_counts if 1 < char_counts[char])
conflicting_opts(f) == {char \in Range(chars(f)) : 1 < char_counts(f, char)}

\* name.startswith(conflicting_opts): some element of the tuple is a prefix
startswith_any(name, opts) == \E char \in opts : StartsWith(name, <<char>>)

\* the body of the loop: the (oargs, okwargs) yielded for one parameter
arg_spec(f, name) ==
    IF name \in kwargs_keys(f)
    THEN LET oargs == << <<"-", name[1]>>, <<"-", "-">> \o name >>
         IN  [oargs   |-> IF startswith_any(name, conflicting_opts(f))
                          THEN Tail(oargs)
                          ELSE oargs,
              default |-> <<kwargs_get(f, name)>>]
    ELSE [oargs |-> <<name>>, default |-> <<>>]

\* list(_get_args_from_signature(function))
get_args_from_signature(f) ==
    IF ~f.infer THEN <<>>
    ELSE [i \in 1..Len(f.args) |-> arg_spec(f, f.args[i])]

(***************************************************************************)
(* The functions given to the assembler.                                   *)
(***************************************************************************)
\* @command def greet(name, excited=False): "Say hello"
Greet ==
    [name |-> <<"g", "r", "e", "e", "t">>, argh_name |-> <<>>, argh_args |-> <<>>,
     infer |-> TRUE, args |-> << <<"n", "a", "m", "e">>, <<"e", "x">> >>,
     defaults |-> <<"False">>, doc |-> "Say hello"]

\* @named('get_one') @arg('--id') def fetch_one(args): "Y"
FetchOne ==
    [name |-> <<"f", "e", "t", "c", "h", "_", "o", "n", "e">>,
     argh_name |-> << <<"g", "e", "t", "_", "o", "n", "e">> >>,
     argh_args |-> << [oargs |-> << <<"-", "-", "i", "d">> >>, default |-> <<>>] >>,
     infer |-> FALSE, args |-> << <<"a", "r", "g", "s">> >>, defaults |-> <<>>,
     doc |-> "Y"]

\* @command def dump_all_now(path): no docstring
DumpAllNow ==
    [name |-> <<"d", "u", "m", "p", "_", "a", "l", "l", "_", "n", "o", "w">>,
     argh_name |-> <<>>, argh_args |-> <<>>, infer |-> TRUE,
     args |-> << <<"p", "a", "t", "h">> >>, defaults |-> <<>>, doc |-> ""]

\* @arg('--id') @command def mixed(path): "Z": inferred and declared specs together
Mixed ==
    [name |-> <<"m", "i", "x", "e", "d">>, argh_name |-> <<>>,
     argh_args |-> << [oargs |-> << <<"-", "-", "i", "d">> >>, default |-> <<>>] >>,
     infer |-> TRUE, args |-> << <<"p", "a", "t", "h">> >>, defaults |-> <<>>,
     doc |-> "Z"]

\* @arg('-v') @command def status(): "S": opted into inference, nothing to infer
Status ==
    [name |-> <<"s", "t", "a", "t", "u", "s">>, argh_name |-> <<>>,
     argh_args |-> << [oargs |-> << <<"-", "v">> >>, default |-> <<>>] >>,
     infer |-> TRUE, args |-> <<>>, defaults |-> <<>>, doc |-> "S"]

Functions == {Greet, FetchOne, DumpAllNow, Mixed, Status}

\* namespace: <<>> stands for None
Namespaces == {<<>>, <<"n", "s">>}

\* title, description, help: "" stands for None
Titles == {"", "T"}
Descriptions == {"", "D"}
Helps == {"", "H"}

(***************************************************************************)
(* Parsers.                                                                *)
(*   args         the arguments registered with add_argument, in order     *)
(*   description  parser.description                                       *)
(*   function     parser._defaults.get('function') (optional)              *)
(*   subparsers   the subcommand container (optional): the texts given to  *)
(*                add_subparsers and choices, the add_parser calls in      *)
(*                order, each with the name, the help and the subparser    *)
(* argparse keeps the subparsers by name; what it does with a name added   *)
(* twice differs between its versions and is not modelled: choices records *)
(* every add_parser call. The assert statements are taken as executed      *)
(* (Python not run with -O).                                               *)
(***************************************************************************)
\* argparse.ArgumentParser(description=d)
NewParser(d) ==
    [args |-> <<>>, description |-> d, function |-> <<>>, subparsers |-> <<>>]

\* parser.add_subparsers(title=..., description=..., help=...)
NewSubparsers(title, description, help) ==
    [title |-> title, description |-> description, help |-> help, choices |-> <<>>]

\* whether add_argument(*oargs) declares an option (not a positional)
is_option(a) == StartsWith(a.oargs[1], <<"-">>)

\* the option strings registered on a parser
option_strings(p) ==
    UNION {Range(p.args[i].oargs) : i \in {k \in 1..Len(p.args) : is_option(p.args[k])}}

\* parser.add_argument(*a_args, **a_kwargs): argparse refuses an option string
\* that the parser already has (conflict_handler='error')
add_argument(p, a) ==
    IF is_option(a) /\ Range(a.oargs) \cap option_strings(p) # {}
    THEN [parser |-> p, outcome |-> "ArgumentError"]
    ELSE [parser |-> [p EXCEPT !.args = Append(@, a)], outcome |-> "ok"]

\* for a_args, a_kwargs in command_args: parser.add_argument(*a_args, **a_kwargs)
RECURSIVE add_arguments(_, _)
add_arguments(p, command_args) ==
    IF command_args = <<>> THEN [parser |-> p, outcome |-> "ok"]
    ELSE LET r == add_argument(p, Head(command_args))
         IN  IF r.outcome # "ok" THEN r
             ELSE add_arguments(r.parser, Tail(command_args))

(***************************************************************************)
(* set_default_command                                                     *)
(***************************************************************************)
\* the check for existing subparsers left out
has_subparsers_unchecked(p) == FALSE

\* if parser._subparsers
has_subparsers(p) == p.subparsers # <<>>

\* the check for declared specs beside inferred ones left out
args_combined_unchecked(f) == FALSE

\* if inferred_args: if declared_args: raise RuntimeError
args_combined(f) ==
    get_args_from_signature(f) # <<>> /\ f.argh_args # <<>>

\* command_args = inferred_args or declared_args
command_args_of(f) ==
    IF get_args_from_signature(f) # <<>>
    THEN get_args_from_signature(f)
    ELSE f.argh_args

\* "and not parser.description" left out: the docstring overwrites
described_overwriting(p, f) ==
    IF f.doc # "" THEN f.doc ELSE p.description

\* if function.__doc__ and not parser.description: parser.description = function.__doc__
described(p, f) ==
    IF f.doc # "" /\ p.description = "" THEN f.doc ELSE p.description

set_default_command(p, f) ==
    IF has_subparsers(p) THEN [parser |-> p, outcome |-> "RuntimeError"]
    ELSE IF args_combined(f) THEN [parser |-> p, outcome |-> "RuntimeError"]
    ELSE LET r == add_arguments(p, command_args_of(f))
         IN  IF r.outcome # "ok" THEN r
             ELSE [parser  |-> [r.parser EXCEPT !.description = described(r.parser, f),
                                                !.function = <<f>>],
                   outcome |-> "ok"]

(***************************************************************************)
(* add_commands                                                            *)
(***************************************************************************)
\* the check for a default function left out
has_default_function_unchecked(p) == FALSE

\* if 'function' in parser._defaults
has_default_function(p) == p.function # <<>>

\* get_subparsers(parser, create=True): the parser with its container, made
\* by parser.add_subparsers() when it has none
get_subparsers(p) ==
    IF p.subparsers # <<>> THEN p
    ELSE [p EXCEPT !.subparsers = <<NewSubparsers("", "", "")>>]

\* only the title checked
any_of_title_only(title, description, help) == title # ""

\* any([title, description, help])
any_of(title, description, help) ==
    title # "" \/ description # "" \/ help # ""

\* cmd_name = getattr(func, ATTR_NAME, func.__name__.replace('_','-'))
cmd_name(func) ==
    IF func.argh_name # <<>> THEN func.argh_name[1]
    ELSE Replace(func.name, "_", "-")

\* for func in functions: the loop, on the choices of the container it adds to.
\* add_parser comes before set_default_command, so the subparser of a function
\* that cannot be bound is already among the choices when the exception leaves
RECURSIVE add_parsers(_, _)
add_parsers(choices, functions) ==
    IF functions = <<>> THEN [choices |-> choices, outcome |-> "ok"]
    ELSE LET func  == Head(functions)
             r     == set_default_command(NewParser(""), func)
             added == Append(choices, [name   |-> cmd_name(func),
                                       help   |-> func.doc,
                                       parser |-> r.parser])
         IN  IF r.outcome # "ok" THEN [choices |-> added, outcome |-> r.outcome]
             ELSE add_parsers(added, Tail(functions))

add_commands(p, functions, namespace, title, description, help) ==
    IF has_default_function(p) THEN [parser |-> p, outcome |-> "RuntimeError"]
    ELSE LET created == get_subparsers(p)
             top     == created.subparsers[1]
         IN  IF namespace # <<>>
             THEN LET r == add_parsers(<<>>, functions)
                      subsubparser ==
                          [NewParser("") EXCEPT !.subparsers =
                              <<[NewSubparsers(title, description, help)
                                    EXCEPT !.choices = r.choices]>>]
                      placeholder ==
                          [name |-> namespace, help |-> title, parser |-> subsubparser]
                  IN  [parser  |-> [created EXCEPT !.subparsers =
                                       <<[top EXCEPT !.choices = Append(@, placeholder)]>>],
                       outcome |-> r.outcome]
             ELSE IF any_of(title, description, help)
             THEN [parser |-> created, outcome |-> "AssertionError"]
             ELSE LET r == add_parsers(top.choices, functions)
                  IN  [parser  |-> [created EXCEPT !.subparsers =
                                       <<[top EXCEPT !.choices = r.choices]>>],
                       outcome |-> r.outcome]

(***************************************************************************)
(* The assembler as a state machine. A caller makes a call, with any       *)
(* arguments the bounds allow (CallSetDefaultCommand, CallAddCommands),    *)
(* and the function runs to its return or its exception in one step        *)
(* (SetDefaultCommand, AddCommands). Calls follow each other in any order  *)
(* on the one parser; the tree stays within MaxNodes subparsers and the    *)
(* root parser within MaxArgs arguments. The variables function and        *)
(* inferred belong to the inferencer's own specification below and do not  *)
(* change here.                                                            *)
(***************************************************************************)
\* the number of subparsers below a parser
RECURSIVE NodeCount(_)
RECURSIVE NodeCountAll(_)
NodeCount(p) ==
    IF p.subparsers = <<>> THEN 0 ELSE NodeCountAll(p.subparsers[1].choices)

NodeCountAll(choices) ==
    IF choices = <<>> THEN 0
    ELSE 1 + NodeCount(Head(choices).parser) + NodeCountAll(Tail(choices))

\* the lists of functions given to add_commands: no function twice in a list
FunctionLists == DistinctSeqs(Functions, MaxNodes)

\* the outcome of a call: "ok", or the exception that left it
Outcomes == {"ok", "RuntimeError", "AssertionError", "ArgumentError"}

Init ==
    /\ parser \in {NewParser(d) : d \in {"", "X"}}
    /\ call = <<>>
    /\ last = [op |-> "none", outcome |-> "ok"]
    /\ function = Greet
    /\ inferred = <<>>

CallSetDefaultCommand ==
    /\ call = <<>>
    /\ \E f \in Functions :
        /\ Len(set_default_command(parser, f).parser.args) <= MaxArgs
        /\ call' = <<[op |-> "set_default_command", functions |-> <<f>>,
                      namespace |-> <<>>, title |-> "", description |-> "",
                      help |-> ""]>>
    /\ UNCHANGED <<parser, last, function, inferred>>

CallAddCommands ==
    /\ call = <<>>
    /\ \E functions \in FunctionLists, namespace \in Namespaces,
          title \in Titles, description \in Descriptions, help \in Helps :
        /\ NodeCount(parser) + Len(functions)
               + (IF namespace # <<>> THEN 1 ELSE 0) <= MaxNodes
        /\ call' = <<[op |-> "add_commands", functions |-> functions,
                      namespace |-> namespace, title |-> title,
                      description |-> description, help |-> help]>>
    /\ UNCHANGED <<parser, last, function, inferred>>

SetDefaultCommand ==
    /\ call # <<>>
    /\ call[1].op = "set_default_command"
    /\ LET r == set_default_command(parser, call[1].functions[1])
       IN  /\ parser' = r.parser
           /\ last' = [op |-> "set_default_command", outcome |-> r.outcome]
    /\ call' = <<>>
    /\ UNCHANGED <<function, inferred>>

AddCommands ==
    /\ call # <<>>
    /\ call[1].op = "add_commands"
    /\ LET r == add_commands(parser, call[1].functions, call[1].namespace,
                             call[1].title, call[1].description, call[1].help)
       IN  /\ parser' = r.parser
           /\ last' = [op |-> "add_commands", outcome |-> r.outcome]
    /\ call' = <<>>
    /\ UNCHANGED <<function, inferred>>

Next ==
    \/ CallSetDefaultCommand
    \/ CallAddCommands
    \/ SetDefaultCommand
    \/ AddCommands

Spec == Init /\ [][Next]_vars

(***************************************************************************)
(* The inferencer alone: every signature within MaxParams, inferred once.  *)
(***************************************************************************)
InitInfer ==
    /\ function \in Signatures
    /\ inferred = <<>>
    /\ parser = NewParser("")
    /\ call = <<>>
    /\ last = [op |-> "none", outcome |-> "ok"]

InferArgs ==
    /\ inferred = <<>>
    /\ inferred' = <<get_args_from_signature(function)>>
    /\ UNCHANGED <<parser, call, last, function>>

NextInfer == InferArgs

SpecInfer == InitInfer /\ [][NextInfer]_vars

(***************************************************************************)
(* Properties.                                                             *)
(***************************************************************************)
\* the step in which the call being made runs to its return or exception
Runs(op) == call # <<>> /\ call' = <<>> /\ call[1].op = op

\* a parser and every parser below it
RECURSIVE Parsers(_)
Parsers(p) ==
    {p} \cup
    (IF p.subparsers = <<>> THEN {}
     ELSE UNION {Parsers(p.subparsers[1].choices[i].parser) :
                    i \in 1..Len(p.subparsers[1].choices)})

\* the choices of a parser's container, none when it has no container
ChoicesOf(p) == IF p.subparsers = <<>> THEN <<>> ELSE p.subparsers[1].choices

\* C1: no parser of the tree, after any sequence of set_default_command and
\* add_commands calls, successful or not, has both a bound 'function' default
\* and a subcommand container.
ModeExclusive ==
    \A q \in Parsers(parser) : ~(q.function # <<>> /\ q.subparsers # <<>>)

\* C1 witness: set_default_command was refused on a parser that has a
\* container, which still has no bound function.
ModeExclusiveWitness ==
    /\ last.op = "set_default_command"
    /\ last.outcome = "RuntimeError"
    /\ parser.subparsers # <<>>
    /\ parser.function = <<>>

\* C2: set_default_command on a parser that has a container raises
\* RuntimeError and add_commands on a parser that has a bound function raises
\* RuntimeError, whatever the arguments, and the parser is left as it was.
ModeConversionFails ==
    [][(call # <<>> /\ call' = <<>>) =>
          /\ (call[1].op = "set_default_command" /\ parser.subparsers # <<>>)
                => (last'.outcome = "RuntimeError" /\ parser' = parser)
          /\ (call[1].op = "add_commands" /\ parser.function # <<>>)
                => (last'.outcome = "RuntimeError" /\ parser' = parser)]_vars

\* C2 witness: add_commands was refused on a parser that has a bound function.
ModeConversionFailsWitness ==
    /\ last.op = "add_commands"
    /\ last.outcome = "RuntimeError"
    /\ parser.function # <<>>
    /\ parser.subparsers = <<>>

\* C3: an add_commands call that raises RuntimeError or AssertionError leaves
\* the parser tree exactly as it was before the call.
AttachFailureAtomic ==
    [][(Runs("add_commands") /\ last'.outcome \in {"RuntimeError", "AssertionError"})
          => parser' = parser]_vars

\* whether parameter i of f has a default: defaults belong to the last parameters
Defaulted(f, i) == i > Len(f.args) - Len(f.defaults)

\* the default of a defaulted parameter
DefaultOf(f, i) == f.defaults[i - (Len(f.args) - Len(f.defaults))]

\* two defaulted parameters of f share their first character
DefaultedCollide(f, i, j) ==
    /\ i # j
    /\ Defaulted(f, i)
    /\ Defaulted(f, j)
    /\ f.args[i][1] = f.args[j][1]

ParamsOf(f) == 1..Len(f.args)

\* C4: for a function opted into inference in which no two defaulted
\* parameters share a first character, every defaulted parameter yields the
\* spec (-<first char>, --<name>) with its default and every other parameter
\* the positional spec named after it; a positional parameter sharing a first
\* character with a defaulted one changes nothing.
InferenceWithoutCollisions ==
    (/\ inferred # <<>>
     /\ function.infer
     /\ ~\E i, j \in ParamsOf(function) : DefaultedCollide(function, i, j))
    => /\ Len(inferred[1]) = Len(function.args)
       /\ \A i \in ParamsOf(function) :
            inferred[1][i] =
                IF Defaulted(function, i)
                THEN [oargs   |-> << <<"-", function.args[i][1]>>,
                                     <<"-", "-">> \o function.args[i] >>,
                      default |-> <<DefaultOf(function, i)>>]
                ELSE [oargs |-> <<function.args[i]>>, default |-> <<>>]

\* a short option string: a hyphen and one character
IsShortFlag(x) == Len(x) = 2 /\ x[1] = "-"

\* C5: for a function opted into inference, every defaulted parameter whose
\* first character is shared with another defaulted parameter yields a spec
\* with the long form --<name> alone, and no short flag occurs in two of the
\* inferred specs.
ShortFlagCollisionRule ==
    (inferred # <<>> /\ function.infer)
    => /\ Len(inferred[1]) = Len(function.args)
       /\ \A i \in ParamsOf(function) :
            (\E j \in ParamsOf(function) : DefaultedCollide(function, i, j))
                => inferred[1][i].oargs = << <<"-", "-">> \o function.args[i] >>
       /\ \A i, j \in ParamsOf(function) :
            i # j => ~\E x \in Range(inferred[1][i].oargs) :
                        IsShortFlag(x) /\ x \in Range(inferred[1][j].oargs)

\* C5 witness: the specs of a function with two defaulted parameters of the
\* same first character have been inferred.
ShortFlagCollisionWitness ==
    /\ inferred # <<>>
    /\ function.infer
    /\ \E i, j \in ParamsOf(function) : DefaultedCollide(function, i, j)

\* C6: set_default_command with a function that opted into inference, has at
\* least one parameter and carries declared specs raises RuntimeError and
\* leaves the parser as it was: no argument registered, the description and
\* the bound function untouched.
CombinedSpecsRefused ==
    [][(/\ Runs("set_default_command")
        /\ call[1].functions[1].infer
        /\ call[1].functions[1].args # <<>>
        /\ call[1].functions[1].argh_args # <<>>)
          => (last'.outcome = "RuntimeError" /\ parser' = parser)]_vars

\* C6 witness: set_default_command was refused on a parser without a
\* container, which is still a fresh parser without a description.
CombinedSpecsRefusedWitness ==
    /\ last.op = "set_default_command"
    /\ last.outcome = "RuntimeError"
    /\ parser = NewParser("")

\* C7: a parser's description, once non-empty, never changes; it changes only
\* in a set_default_command call on a parser without a description, with a
\* function that has a docstring, and then to that docstring.
DescriptionKept ==
    [][/\ parser.description # "" => parser'.description = parser.description
       /\ parser'.description # parser.description
            => /\ Runs("set_default_command")
               /\ parser.description = ""
               /\ call[1].functions[1].doc # ""
               /\ parser'.description = call[1].functions[1].doc]_vars

\* C7 witness: a function with a docstring is bound to a parser that kept its
\* own description "X".
DescriptionKeptWitness ==
    /\ last.op = "set_default_command"
    /\ last.outcome = "ok"
    /\ parser.description = "X"
    /\ parser.function # <<>>
    /\ parser.function[1].doc \notin {"", "X"}

\* C8 as stated: add_commands without a namespace and with a non-empty title,
\* description or help raises AssertionError, for every list of functions;
\* with all three empty it does not raise AssertionError.
NamespaceOnlyParamsAnyParser ==
    [][(Runs("add_commands") /\ call[1].namespace = <<>>)
          => (last'.outcome = "AssertionError"
                <=> (call[1].title # "" \/ call[1].description # ""
                        \/ call[1].help # ""))]_vars

\* C8 as amended: on a parser that has no bound function, add_commands
\* without a namespace and with a non-empty title, description or help raises
\* AssertionError, for every list of functions; with all three empty, or on a
\* parser that has a bound function, it does not raise AssertionError.
NamespaceOnlyParams ==
    [][(Runs("add_commands") /\ call[1].namespace = <<>>)
          => (last'.outcome = "AssertionError"
                <=> (/\ parser.function = <<>>
                     /\ (call[1].title # "" \/ call[1].description # ""
                            \/ call[1].help # "")))]_vars

\* C8 witness: add_commands raised AssertionError.
NamespaceOnlyParamsWitness ==
    /\ last.op = "add_commands"
    /\ last.outcome = "AssertionError"
    /\ parser.function = <<>>

\* n is the command name of func: the explicit name as it is, or else the
\* function's name with a hyphen wherever it has an underscore
IsCommandNameOf(n, func) ==
    IF func.argh_name # <<>> THEN n = func.argh_name[1]
    ELSE /\ Len(n) = Len(func.name)
         /\ \A i \in 1..Len(n) :
               n[i] = IF func.name[i] = "_" THEN "-" ELSE func.name[i]

\* the choices are those of the functions, in order
AreCommandsOf(choices, functions) ==
    /\ Len(choices) = Len(functions)
    /\ \A k \in 1..Len(functions) :
          /\ IsCommandNameOf(choices[k].name, functions[k])
          /\ choices[k].parser.function = <<functions[k]>>

\* C9: a successful add_commands call appends one subparser per function, in
\* the order of the list, to the container (to the new namespace's container
\* when a namespace is given), each named by the function's explicit name as
\* it is, or else by the function's name with every underscore replaced by a
\* hyphen, and each bound to its function.
CommandNaming ==
    [][(Runs("add_commands") /\ last'.outcome = "ok")
          => LET before == ChoicesOf(parser)
                 after  == ChoicesOf(parser')
             IN  IF call[1].namespace = <<>>
                 THEN /\ Len(after) = Len(before) + Len(call[1].functions)
                      /\ SubSeq(after, 1, Len(before)) = before
                      /\ AreCommandsOf(SubSeq(after, Len(before) + 1, Len(after)),
                                       call[1].functions)
                 ELSE /\ Len(after) = Len(before) + 1
                      /\ SubSeq(after, 1, Len(before)) = before
                      /\ after[Len(after)].name = call[1].namespace
                      /\ AreCommandsOf(ChoicesOf(after[Len(after)].parser),
                                       call[1].functions)]_vars

\* C9 witness: dump_all_now and fetch_one (named get_one) were added in one
\* call and are the commands dump-all-now and get_one, in this order.
CommandNamingWitness ==
    /\ last.op = "add_commands"
    /\ last.outcome = "ok"
    /\ Len(ChoicesOf(parser)) = 2
    /\ ChoicesOf(parser)[1].name =
          <<"d", "u", "m", "p", "-", "a", "l", "l", "-", "n", "o", "w">>
    /\ ChoicesOf(parser)[1].parser.function = <<DumpAllNow>>
    /\ ChoicesOf(parser)[2].name = <<"g", "e", "t", "_", "o", "n", "e">>
    /\ ChoicesOf(parser)[2].parser.function = <<FetchOne>>

\* the parser carries the bound function's specs and no others
CarriesOnlyBound(p) ==
    IF p.function = <<>> THEN p.args = <<>>
    ELSE p.args = command_args_of(p.function[1])

\* C10: after a successful set_default_command on a parser that carried
\* nothing but its bound function's specs (a fresh parser, or one reached by
\* successful binds), the parser's arguments are exactly the resolved specs
\* of the function bound now, in order.
OneBoundCommand ==
    [][(/\ Runs("set_default_command")
        /\ last'.outcome = "ok"
        /\ CarriesOnlyBound(parser))
          => CarriesOnlyBound(parser')]_vars

=============================================================================
